---- MODULE Spec2Model ----
(***************************************************************************)
(* Api_Magnum: order placement (pedidoController.crearPedido), the stock   *)
(* ledger (Stock), the sequence generator and identifier formatter         *)
(* (AutoIncrement), modelled as a state machine over the Firestore         *)
(* collections 'contadores', 'stocks' and 'pedidos'.  Every await of the   *)
(* handlers is one step, so concurrent requests interleave between the     *)
(* round trips to the store.                                               *)
(***************************************************************************)
EXTENDS Integers, Sequences, FiniteSets, TLC

(***************************************************************************)
(* Bounds of the model.                                                    *)
(***************************************************************************)
\* attempts db.runTransaction makes before it rejects
MaxIntentos == 2
\* milliseconds the wall clock can advance
MaxReloj == 1
\* value of Date.now() when the model starts
RelojBase == 100000
\* getNextSequence calls made by the stand-alone callers
MaxLlamadas == 2
\* largest sequence number given to the formatter, besides NumerosBorde
MaxNumero == 12
\* largest quantity and minimum of the stock records given to the low-stock query
MaxCantidad == 2

(***************************************************************************)
(* Strings are sequences of one-character strings, so that padStart and    *)
(* String(n) are computed and not assumed.                                 *)
(***************************************************************************)
Digito(d) == <<"0", "1", "2", "3", "4", "5", "6", "7", "8", "9">>[d + 1]

RECURSIVE StringDe(_)
\* String(n) of a non-negative integer
StringDe(n) == IF n < 10 THEN <<Digito(n)>>
               ELSE StringDe(n \div 10) \o <<Digito(n % 10)>>

RECURSIVE Relleno(_)
Relleno(k) == IF k <= 0 THEN <<>> ELSE <<"0">> \o Relleno(k - 1)

\* s.padStart(ancho, '0')
padStart(s, ancho) == IF Len(s) >= ancho THEN s ELSE Relleno(ancho - Len(s)) \o s

(***************************************************************************)
(* A JavaScript object literal answers a key it does not own with the      *)
(* property inherited from Object.prototype; those values are functions or *)
(* objects, all truthy, so `table[key] || fallback` does not reach the     *)
(* fallback for them.                                                      *)
(***************************************************************************)
ObjectPrototype == {"constructor", "toString", "valueOf", "hasOwnProperty", "__proto__"}

\* a string value
Cadena(s) == [tipo |-> "string", valor |-> s]
\* the inherited (non-string, non-number) value found under key k
Heredado(k) == [tipo |-> "object", valor |-> <<k>>]

(***************************************************************************)
(* AutoIncrement.getInitialValue                                           *)
(***************************************************************************)
initialValues == [productos |-> 1000, pedidos |-> 2000, categorias |-> 100,
                  usuarios |-> 10, precios |-> 5000, stocks |-> 3000]

getInitialValue(collectionName) ==
    IF collectionName \in DOMAIN initialValues THEN initialValues[collectionName]
    ELSE IF collectionName \in ObjectPrototype THEN Heredado(collectionName)
    ELSE 1

\* the seed values written by the createCounters script
counters == [usuarios |-> 100, productos |-> 1000, categorias |-> 10,
             precios |-> 5000, stocks |-> 2000, pedidos |-> 3000]

(***************************************************************************)
(* AutoIncrement.generateId: the formatting of the sequence number nextId  *)
(***************************************************************************)
formats(nextId) ==
    [productos  |-> <<"P", "R", "O", "D", "-">> \o padStart(StringDe(nextId), 4),
     pedidos    |-> <<"P", "E", "D", "-">> \o padStart(StringDe(nextId), 5),
     categorias |-> <<"C", "A", "T", "-">> \o padStart(StringDe(nextId), 3),
     usuarios   |-> <<"U", "S", "E", "R", "-">> \o padStart(StringDe(nextId), 3),
     precios    |-> <<"P", "R", "I", "C", "E", "-">> \o padStart(StringDe(nextId), 4),
     stocks     |-> <<"S", "T", "O", "C", "K", "-">> \o padStart(StringDe(nextId), 4)]

generateId(collectionName, nextId) ==
    IF collectionName \in DOMAIN formats(nextId)
    THEN Cadena(formats(nextId)[collectionName])
    ELSE IF collectionName \in ObjectPrototype THEN Heredado(collectionName)
    ELSE Cadena(<<"I", "D", "-">> \o StringDe(nextId))

(***************************************************************************)
(* Processes and inputs.                                                   *)
(***************************************************************************)
\* place-order requests in flight (each one HTTP request)
Reqs == {"r1", "r2"}
\* other creation paths that mint an id (Producto.save, Categoria.save, ...)
Generadores == {"g1", "g2"}
Procs == Reqs \cup Generadores

\* the six collections with a counter, and one collection without a table entry
Colecciones == DOMAIN initialValues \cup {"otros"}

VARIABLES
    contadores,   \* collection 'contadores': per collection name, the counter document
    reloj,        \* milliseconds elapsed; Date.now() = RelojBase + reloj
    seq,          \* per process, its activation of getNextSequence
    devueltos,    \* the values getNextSequence has returned, in order of completion
    fmt,          \* one call of the identifier formatter: its input and output
    stocks,       \* collection 'stocks': the documents, in document order
    pedidos,      \* collection 'pedidos': the documents, in order of creation
    req,          \* per place-order request, the handler's position and locals
    precios,      \* collection 'precios': the documents, in order of creation
    preq,         \* per price request, the handler's position and locals
    sreq,         \* per stock request, the handler's position and locals
    bitacora,     \* the stock requests, in order of arrival
    bajo,         \* one call of Stock.findAllBajoStock: its position and result
    ereq,         \* per order-status request, the handler's position and locals
    creq          \* one order query (obtenerPedidos, obtenerPedido): position and result

vars == <<contadores, reloj, seq, devueltos, fmt, stocks, pedidos, req,
          precios, preq, sreq, bitacora, bajo, ereq, creq>>
varsPedidos == <<stocks, pedidos, req>>
varsSecuencia == <<contadores, seq, devueltos, fmt>>
varsPrecios == <<precios, preq>>
varsStock == <<sreq, bitacora, bajo>>
varsGestion == <<varsPrecios, varsStock, ereq, creq>>

\* products of the catalogue; P3 has no stock record
Productos == {"P1", "P2", "P3"}
Usuarios == {"U1", "U2"}
\* req.user.id: the authenticated user of each request
Sesion == [r1 |-> "U1", r2 |-> "U2"]

\* a line item {productoId, cantidad, precio}
Item(productoId, cantidad, precio) ==
    [productoId |-> productoId, cantidad |-> cantidad, precio |-> precio]

\* the bodies (req.body.productos) the requests are drawn from, against the
\* initial stock of 5 x P1 and 3 x P2
Cuerpos ==
    { <<Item("P1", 2, 100), Item("P2", 1, 50)>>,    \* both in stock
      <<Item("P1", 4, 50)>>,                        \* in stock, most of P1
      <<Item("P2", 3, 50), Item("P1", 1, 50)>>,     \* exactly the stock of P2
      <<Item("P2", 4, 100)>>,                       \* more than the stock of P2
      <<Item("P1", 1, 100), Item("P3", 1, 50)>>,    \* second product has no stock record
      <<Item("P2", 2, 50), Item("P2", 2, 100)>> }   \* the same product twice

\* new Date() of the requests: October 2025 (getMonth() counts from 0)
today == [year |-> 2025, month |-> 9]

SinDocumento == [existe |-> FALSE, secuencia |-> 0]
\* a handler not yet called.  antes and solo are history: the stocks collection
\* when the request arrived, and whether no other request has been in flight
\* since then
ReqInactivo == [pc |-> "idle", productos |-> <<>>, vendedorId |-> "", i |-> 0, total |-> 0,
                numero |-> Cadena(<<>>), nuevaCantidad |-> 0, stockId |-> 0,
                status |-> 0, error |-> "", antes |-> <<>>, solo |-> FALSE]
StocksIniciales ==
    << [productoId |-> "P1", cantidad |-> 5, minimo |-> 5, activo |-> TRUE],
       [productoId |-> "P2", cantidad |-> 3, minimo |-> 5, activo |-> TRUE] >>
SeqInactivo == [pc |-> "idle", tipo |-> "", leido |-> SinDocumento, intentos |-> 0, resultado |-> 0]
FmtInactivo == [pc |-> "idle", tipo |-> "", n |-> 0, salida |-> Cadena(<<>>)]

DateNow == RelojBase + reloj

\* an optional field of a request body: undefined, or the value given
undefined == {}
Dado(v) == {v}
Valor(x) == CHOOSE v \in x : TRUE

\* the product ids the price and stock requests name: PX is no product
IdsProducto == {"P1", "P2", "P3", "PX"}

\* price requests (crearPrecio, actualizarPrecio), each one HTTP request
PReqs == {"a1", "a2", "a3"}
\* a price handler not yet called; leidos are the documents its query returned.
\* solo and antes are history: no other price request for the same product has
\* been in flight since this one arrived, and the product's current record
\* (its position, 0 for none) when it arrived
PrecioInactivo == [pc |-> "idle", ruta |-> "", productoId |-> "", precio |-> 0,
                   fechaCreacion |-> 0, leidos |-> {}, status |-> 0, solo |-> FALSE,
                   antes |-> 0]

\* stock requests (crearStock, actualizarStock, ajustarStock), each one HTTP request
SReqs == {"s1", "s2"}
\* a stock handler not yet called.  antes, despues and solo are history: the
\* stocks collection when the request arrived and when it was answered, and
\* whether no other stock request has been in flight in between
StockReqInactivo == [pc |-> "idle", op |-> "", productoId |-> "", cantidad |-> undefined,
                     minimo |-> undefined, tipo |-> "", existente |-> 0, anterior |-> 0,
                     nuevaCantidad |-> 0, stockId |-> 0, status |-> 0,
                     antes |-> <<>>, despues |-> <<>>, solo |-> FALSE]
BajoInactivo == [pc |-> "idle", resultado |-> <<>>]

\* order-status requests (actualizarEstado), each one HTTP request
EReqs == {"e1", "e2"}
\* a status handler not yet called.  antes, despues and solo are history: the
\* pedidos collection when the request arrived and when it was answered, and
\* whether no other status request has been in flight in between
EstadoInactivo == [pc |-> "idle", id |-> Cadena(<<>>), estado |-> "", doc |-> 0, status |-> 0,
                   antes |-> <<>>, despues |-> <<>>, solo |-> FALSE]

\* an order query not yet made; resultado are the documents it answers with
ConsultaInactiva == [pc |-> "idle", op |-> "", rol |-> "", userId |-> "", id |-> Cadena(<<>>),
                     resultado |-> <<>>, status |-> 0]

InitGestion ==
    /\ precios = <<>>
    /\ preq = [h \in PReqs |-> PrecioInactivo]
    /\ sreq = [s \in SReqs |-> StockReqInactivo]
    /\ bitacora = <<>>
    /\ bajo = BajoInactivo
    /\ ereq = [e \in EReqs |-> EstadoInactivo]
    /\ creq = ConsultaInactiva

Init ==
    /\ contadores = [c \in Colecciones |-> SinDocumento]
    /\ reloj = 0
    /\ seq = [p \in Procs |-> SeqInactivo]
    /\ devueltos = <<>>
    /\ fmt = FmtInactivo
    /\ stocks = StocksIniciales
    /\ pedidos = <<>>
    /\ req = [r \in Reqs |-> ReqInactivo]
    /\ InitGestion

(***************************************************************************)
(* AutoIncrement.getNextSequence.  db.runTransaction runs the update       *)
(* function, and commits its writes only if the documents it read have not *)
(* been written since; otherwise it runs the function again, and rejects   *)
(* after MaxIntentos attempts.  A rejected transaction writes nothing.     *)
(***************************************************************************)
EnVuelo(p) == seq[p].pc \in {"tx_get", "tx_commit"}

\* entry of getNextSequence(collectionName)
getNextSequence(p, collectionName) ==
    seq' = [seq EXCEPT ![p] = [pc |-> "tx_get", tipo |-> collectionName,
                               leido |-> SinDocumento, intentos |-> 0, resultado |-> 0]]

\* const counterDoc = await transaction.get(counterRef)
TxGet(p) ==
    /\ seq[p].pc = "tx_get"
    /\ seq' = [seq EXCEPT ![p].pc = "tx_commit", ![p].leido = contadores[seq[p].tipo]]
    /\ UNCHANGED <<contadores, reloj, devueltos, fmt, varsPedidos, varsGestion>>

\* variant: a plain read-then-write, which commits whatever was written meanwhile
SinConflictoMutante(p) == TRUE
\* the document the transaction read has not been written since
SinConflicto(p) == contadores[seq[p].tipo] = seq[p].leido

\* variant: the seeding call increments too
NuevaSecuenciaMutante(counterDoc, collectionName) ==
    IF ~counterDoc.existe THEN getInitialValue(collectionName) + 1
    ELSE counterDoc.secuencia + 1
\* the value the update function computes from the document it read
NuevaSecuencia(counterDoc, collectionName) ==
    IF ~counterDoc.existe THEN getInitialValue(collectionName)
    ELSE counterDoc.secuencia + 1

\* getNextSequence returns valor to its caller; its locals are gone
Devolver(p, valor, via) ==
    /\ seq' = [seq EXCEPT ![p] = [pc |-> "fin", tipo |-> seq[p].tipo, leido |-> SinDocumento,
                                  intentos |-> 0, resultado |-> valor]]
    /\ devueltos' = Append(devueltos, [quien |-> p, tipo |-> seq[p].tipo, valor |-> valor,
                                       via |-> via, intentos |-> seq[p].intentos])

\* the update function's write (set or update) commits; getNextSequence returns result
TxCommit(p) ==
    /\ seq[p].pc = "tx_commit"
    /\ SinConflicto(p)
    /\ LET nueva == NuevaSecuencia(seq[p].leido, seq[p].tipo) IN
        /\ contadores' = [contadores EXCEPT ![seq[p].tipo] = [existe |-> TRUE, secuencia |-> nueva]]
        /\ Devolver(p, nueva, "tx")
    /\ UNCHANGED <<reloj, fmt, varsPedidos, varsGestion>>

\* the commit finds the counter written by another transaction: run again
TxReintento(p) ==
    /\ seq[p].pc = "tx_commit"
    /\ ~SinConflicto(p)
    /\ seq[p].intentos + 1 < MaxIntentos
    /\ seq' = [seq EXCEPT ![p].pc = "tx_get", ![p].intentos = @ + 1]
    /\ UNCHANGED <<contadores, reloj, devueltos, fmt, varsPedidos, varsGestion>>

\* variant: the rejected transaction leaves its increment in the counter
TxFallaMutante(p) ==
    /\ EnVuelo(p)
    /\ Devolver(p, DateNow, "fallback")
    /\ contadores' = [contadores EXCEPT ![seq[p].tipo] =
                         [existe |-> TRUE, secuencia |-> NuevaSecuencia(@, seq[p].tipo)]]
    /\ UNCHANGED <<reloj, fmt, varsPedidos, varsGestion>>
\* the transaction rejects (attempts exhausted, or the store fails): catch, return Date.now()
TxFalla(p) ==
    /\ EnVuelo(p)
    /\ Devolver(p, DateNow, "fallback")
    /\ UNCHANGED <<contadores, reloj, fmt, varsPedidos, varsGestion>>

\* the wall clock advances one millisecond
Tick ==
    /\ reloj < MaxReloj
    /\ reloj' = reloj + 1
    /\ UNCHANGED <<contadores, seq, devueltos, fmt, varsPedidos, varsGestion>>

\* a creation path asks for the next id of its collection
Llamar(p, collectionName) ==
    /\ seq[p].pc \in {"idle", "fin"}
    /\ Len(devueltos) + Cardinality({q \in Generadores : EnVuelo(q)}) < MaxLlamadas
    /\ getNextSequence(p, collectionName)
    /\ UNCHANGED <<contadores, reloj, devueltos, fmt, varsPedidos, varsGestion>>

NextSecuencia ==
    \/ \E p \in Generadores, c \in Colecciones : Llamar(p, c)
    \/ \E p \in Generadores : TxGet(p)
    \/ \E p \in Generadores : TxCommit(p)
    \/ \E p \in Generadores : TxReintento(p)
    \/ \E p \in Generadores : TxFalla(p)
    \/ Tick

SpecSecuencia == Init /\ [][NextSecuencia]_vars

\* the generator over the counters the createCounters script has seeded
InitSemilla ==
    /\ contadores = [c \in Colecciones |->
                        IF c \in DOMAIN counters
                        THEN [existe |-> TRUE, secuencia |-> counters[c]]
                        ELSE SinDocumento]
    /\ reloj = 0
    /\ seq = [p \in Procs |-> SeqInactivo]
    /\ devueltos = <<>>
    /\ fmt = FmtInactivo
    /\ stocks = StocksIniciales
    /\ pedidos = <<>>
    /\ req = [r \in Reqs |-> ReqInactivo]
    /\ InitGestion

SpecSemilla == InitSemilla /\ [][NextSecuencia]_vars

(***************************************************************************)
(* Stock.findByProductoId: the first active document of the product        *)
(* (limit(1)), as its position in the collection, or 0 for null.           *)
(***************************************************************************)
findByProductoId(productoId) ==
    LET activos == {k \in DOMAIN stocks :
                        stocks[k].productoId = productoId /\ stocks[k].activo}
    IN IF activos = {} THEN 0 ELSE CHOOSE k \in activos : \A j \in activos : k <= j

\* variant: only the missing record is refused
StockInsuficienteMutante(k, item) == k = 0
\* !stock || stock.cantidad < item.cantidad
StockInsuficiente(k, item) == k = 0 \/ stocks[k].cantidad < item.cantidad

RECURSIVE reduce(_, _)
\* productos.reduce((sum, item) => sum + (item.precio * item.cantidad), 0)
reduce(productos, n) ==
    IF n = 0 THEN 0
    ELSE reduce(productos, n - 1) + (productos[n].precio * productos[n].cantidad)

\* variant: the last line item is left out of the sum
calcularTotalMutante(productos) == reduce(productos, Len(productos) - 1)
calcularTotal(productos) == reduce(productos, Len(productos))

\* stock.cantidad - item.cantidad
nuevaCantidad(k, item) == stocks[k].cantidad - item.cantidad

\* variant: the consecutive number is the count itself
generarNumeroPedidoMutante ==
    Cadena(<<"P", "E", "D", "-">> \o StringDe(today.year)
           \o padStart(StringDe(today.month + 1), 2) \o <<"-">>
           \o padStart(StringDe(Len(pedidos)), 4))
\* Pedido.generarNumeroPedido: PED-YYYYMM-NNNN from the orders of the month
generarNumeroPedido ==
    LET month == padStart(StringDe(today.month + 1), 2)
        consecutivo == Len(pedidos) + 1
    IN Cadena(<<"P", "E", "D", "-">> \o StringDe(today.year) \o month \o <<"-">>
              \o padStart(StringDe(consecutivo), 4))

Activo(r) == req[r].pc \notin {"idle", "fin"}

\* res.status(codigo).json(...): the handler is over
Responder(r, codigo, error) ==
    req' = [req EXCEPT ![r].pc = "fin", ![r].status = codigo, ![r].error = error]

(***************************************************************************)
(* pedidoController.crearPedido                                            *)
(***************************************************************************)
\* a request arrives: body productos, authenticated user vendedorId
crearPedido(r, productos, vendedorId) ==
    /\ req[r].pc = "idle"
    /\ req' = [q \in Reqs |->
                 IF q = r
                 THEN [ReqInactivo EXCEPT !.pc = "validar", !.productos = productos,
                                          !.vendedorId = vendedorId, !.i = 1,
                                          !.antes = stocks,
                                          !.solo = \A o \in Reqs \ {r} : ~Activo(o)]
                 ELSE [req[q] EXCEPT !.solo = FALSE]]
    /\ UNCHANGED <<contadores, reloj, seq, devueltos, fmt, stocks, pedidos, varsGestion>>

\* 1. validation pass, one line item per round trip; after the last one the
\* total is computed, the Pedido is built and save() asks for its id
ValidarStock(r) ==
    /\ req[r].pc = "validar"
    /\ LET item == req[r].productos[req[r].i]
           k == findByProductoId(item.productoId)
       IN IF StockInsuficiente(k, item)
          THEN /\ Responder(r, 400, item.productoId)
               /\ UNCHANGED seq
          ELSE IF req[r].i < Len(req[r].productos)
          THEN /\ req' = [req EXCEPT ![r].i = @ + 1]
               /\ UNCHANGED seq
          ELSE /\ req' = [req EXCEPT ![r].pc = "save_id", ![r].i = 0,
                                     ![r].total = calcularTotal(req[r].productos)]
               /\ getNextSequence(r, "pedidos")
    /\ UNCHANGED <<contadores, reloj, devueltos, fmt, stocks, pedidos, varsGestion>>

\* Pedido.save: the id is minted; const numeroPedido = await this.generarNumeroPedido()
SaveNumero(r) ==
    /\ req[r].pc = "save_id"
    /\ seq[r].pc = "fin"
    /\ req' = [req EXCEPT ![r].pc = "save_set", ![r].numero = generarNumeroPedido]
    /\ UNCHANGED <<contadores, reloj, seq, devueltos, fmt, stocks, pedidos, varsGestion>>

\* variant: the constructor's default is a token of its own
PedidoEstadoMutante(estado) ==
    IF estado = undefined \/ Valor(estado) = "" THEN "nuevo" ELSE Valor(estado)
\* Pedido.constructor: this.estado = data.estado || 'pendiente'
PedidoEstado(estado) ==
    IF estado = undefined \/ Valor(estado) = "" THEN "pendiente" ELSE Valor(estado)

\* Pedido.save: await pedidoRef.set(pedidoData); estado is the constructor's
\* default, the controller passes none
SaveSet(r) ==
    /\ req[r].pc = "save_set"
    /\ pedidos' = Append(pedidos,
                         [id |-> generateId("pedidos", seq[r].resultado),
                          numero |-> req[r].numero,
                          cliente |-> r,
                          productos |-> req[r].productos,
                          total |-> req[r].total,
                          estado |-> PedidoEstado(undefined),
                          vendedorId |-> req[r].vendedorId])
    /\ req' = [req EXCEPT ![r].pc = "debitar", ![r].i = 1]
    /\ UNCHANGED <<contadores, reloj, seq, devueltos, fmt, stocks, varsGestion>>

\* 5. debit pass: const stock = await Stock.findByProductoId(item.productoId);
\* nuevaCantidad = stock.cantidad - item.cantidad (a null stock throws: 500)
DebitarLeer(r) ==
    /\ req[r].pc = "debitar"
    /\ LET item == req[r].productos[req[r].i]
           k == findByProductoId(item.productoId)
       IN IF k = 0
          THEN Responder(r, 500, "")
          ELSE req' = [req EXCEPT ![r].pc = "upd_find",
                                  ![r].nuevaCantidad = nuevaCantidad(k, item)]
    /\ UNCHANGED <<contadores, reloj, seq, devueltos, fmt, stocks, pedidos, varsGestion>>

\* Stock.updateCantidad: const stock = await this.findByProductoId(productoId)
UpdateCantidadFind(r) ==
    /\ req[r].pc = "upd_find"
    /\ LET k == findByProductoId(req[r].productos[req[r].i].productoId)
       IN IF k = 0
          THEN Responder(r, 500, "")
          ELSE req' = [req EXCEPT ![r].pc = "upd_write", ![r].stockId = k]
    /\ UNCHANGED <<contadores, reloj, seq, devueltos, fmt, stocks, pedidos, varsGestion>>

\* Stock.updateCantidad: await doc(stock.id).update({cantidad: nuevaCantidad});
\* then the next line item, or the 201 response
UpdateCantidadWrite(r) ==
    /\ req[r].pc = "upd_write"
    /\ stocks' = [stocks EXCEPT ![req[r].stockId].cantidad = req[r].nuevaCantidad]
    /\ IF req[r].i < Len(req[r].productos)
       THEN req' = [req EXCEPT ![r].pc = "debitar", ![r].i = @ + 1,
                               ![r].nuevaCantidad = 0, ![r].stockId = 0]
       ELSE req' = [req EXCEPT ![r].pc = "fin", ![r].status = 201,
                               ![r].nuevaCantidad = 0, ![r].stockId = 0]
    /\ UNCHANGED <<contadores, reloj, seq, devueltos, fmt, pedidos, varsGestion>>

Next ==
    \/ \E r \in Reqs, productos \in Cuerpos : crearPedido(r, productos, Sesion[r])
    \/ \E r \in Reqs : ValidarStock(r)
    \/ \E r \in Reqs : TxGet(r)
    \/ \E r \in Reqs : TxCommit(r)
    \/ \E r \in Reqs : TxReintento(r)
    \/ \E r \in Reqs : TxFalla(r)
    \/ \E r \in Reqs : SaveNumero(r)
    \/ \E r \in Reqs : SaveSet(r)
    \/ \E r \in Reqs : DebitarLeer(r)
    \/ \E r \in Reqs : UpdateCantidadFind(r)
    \/ \E r \in Reqs : UpdateCantidadWrite(r)
    \/ Tick

Spec == Init /\ [][Next]_vars

(***************************************************************************)
(* Order placement when the store can fail during the debit pass: an await *)
(* of step 5 rejects, and the handler's catch answers 500.                 *)
(***************************************************************************)
\* variant: the catch removes the order it had persisted
DebitoFallaMutante(r) ==
    /\ req[r].pc \in {"debitar", "upd_find", "upd_write"}
    /\ Responder(r, 500, "")
    /\ pedidos' = SelectSeq(pedidos, LAMBDA pedido : pedido.cliente # r)
    /\ UNCHANGED <<contadores, reloj, seq, devueltos, fmt, stocks, varsGestion>>
\* catch (error) { res.status(500).json(...) }: nothing else is done
DebitoFalla(r) ==
    /\ req[r].pc \in {"debitar", "upd_find", "upd_write"}
    /\ Responder(r, 500, "")
    /\ UNCHANGED <<contadores, reloj, seq, devueltos, fmt, stocks, pedidos, varsGestion>>

NextFallo ==
    \/ Next
    \/ \E r \in Reqs : DebitoFalla(r)

SpecFallo == Init /\ [][NextFallo]_vars

(***************************************************************************)
(* The identifier formatter alone: any collection name, any number.        *)
(***************************************************************************)
NumerosBorde == {23, 99, 100, 999, 1000, 9999, 10000, 99999, 123456, RelojBase}
NumerosFormato == (0 .. MaxNumero) \cup NumerosBorde
NombresFormato == Colecciones \cup {"unknownType"} \cup ObjectPrototype

InitFormato ==
    /\ contadores = [c \in Colecciones |-> SinDocumento]
    /\ reloj = 0
    /\ seq = [p \in Procs |-> SeqInactivo]
    /\ devueltos = <<>>
    /\ fmt \in {[pc |-> "entrada", tipo |-> t, n |-> n, salida |-> Cadena(<<>>)] :
                    t \in NombresFormato, n \in NumerosFormato}
    /\ stocks = StocksIniciales
    /\ pedidos = <<>>
    /\ req = [r \in Reqs |-> ReqInactivo]
    /\ InitGestion

\* return formats[collectionName] || `ID-${nextId}`
Formatear ==
    /\ fmt.pc = "entrada"
    /\ fmt' = [fmt EXCEPT !.pc = "salida", !.salida = generateId(fmt.tipo, fmt.n)]
    /\ UNCHANGED <<contadores, reloj, seq, devueltos, varsPedidos, varsGestion>>

NextFormato == Formatear

SpecFormato == InitFormato /\ [][NextFormato]_vars

(***************************************************************************)
(* The price version store: collection 'precios' and the handlers          *)
(* precioController.crearPrecio and actualizarPrecio over Precio.save.     *)
(***************************************************************************)
\* Producto.findById: the document of that id exists
ProductoFindById(id) == id \in Productos

\* the price each request carries when it carries one; 0 stands for a missing
\* or zero price (both falsy)
Tarifa == [a1 |-> 10, a2 |-> 20, a3 |-> 30]

\* the documents of the product with activo == true
PreciosActivos(productoId) ==
    {k \in DOMAIN precios : precios[k].productoId = productoId /\ precios[k].activo}

\* Precio.findByProductoId: the first active document (limit(1)), 0 for null
PrecioFindByProductoId(productoId) ==
    LET activos == PreciosActivos(productoId)
    IN IF activos = {} THEN 0 ELSE CHOOSE k \in activos : \A j \in activos : k <= j

RECURSIVE OrdenDesc(_)
\* the documents S by fechaCreacion, newest first (equal dates: latest document first)
OrdenDesc(S) ==
    IF S = {} THEN <<>>
    ELSE LET k == CHOOSE k \in S : \A j \in S :
                      \/ precios[j].fechaCreacion < precios[k].fechaCreacion
                      \/ precios[j].fechaCreacion = precios[k].fechaCreacion /\ j <= k
         IN <<k>> \o OrdenDesc(S \ {k})

\* Precio.findHistorialByProductoId: every document of the product
findHistorialByProductoId(productoId) ==
    OrdenDesc({k \in DOMAIN precios : precios[k].productoId = productoId})

PrecioActivo(h) == preq[h].pc \notin {"idle", "fin"}

PrecioResponder(h, codigo) ==
    preq' = [preq EXCEPT ![h].pc = "fin", ![h].status = codigo]

\* a price request for productoId arrives and passes on to Producto.findById
PrecioLlegar(h, ruta, productoId, precio) ==
    preq' = [q \in PReqs |->
               IF q = h
               THEN [PrecioInactivo EXCEPT
                       !.pc = "producto", !.ruta = ruta, !.productoId = productoId,
                       !.precio = precio,
                       !.antes = PrecioFindByProductoId(productoId),
                       !.solo = \A o \in PReqs \ {h} :
                                   ~(PrecioActivo(o) /\ preq[o].productoId = productoId)]
               ELSE IF PrecioActivo(q) /\ preq[q].productoId = productoId
               THEN [preq[q] EXCEPT !.solo = FALSE]
               ELSE preq[q]]

\* POST /precios: if (!productoId || !precio) return 400
crearPrecio(h, productoId, precio) ==
    /\ preq[h].pc = "idle"
    /\ IF productoId = "" \/ precio = 0
       THEN preq' = [preq EXCEPT ![h] = [PrecioInactivo EXCEPT
                        !.pc = "fin", !.ruta = "crear", !.productoId = productoId,
                        !.precio = precio, !.status = 400]]
       ELSE PrecioLlegar(h, "crear", productoId, precio)
    /\ UNCHANGED <<reloj, varsSecuencia, varsPedidos, precios, varsStock, ereq, creq>>

\* PUT /precios/producto/:productoId: no validation of the body
actualizarPrecio(h, productoId, precio) ==
    /\ preq[h].pc = "idle"
    /\ PrecioLlegar(h, "actualizar", productoId, precio)
    /\ UNCHANGED <<reloj, varsSecuencia, varsPedidos, precios, varsStock, ereq, creq>>

\* const producto = await Producto.findById(productoId); 404 when null, else
\* new Precio({...}) stamps fechaCreacion and save() starts
PrecioBuscarProducto(h) ==
    /\ preq[h].pc = "producto"
    /\ IF ~ProductoFindById(preq[h].productoId)
       THEN PrecioResponder(h, 404)
       ELSE preq' = [preq EXCEPT ![h].pc = "save_get", ![h].fechaCreacion = DateNow]
    /\ UNCHANGED <<reloj, varsSecuencia, varsPedidos, precios, varsStock, ereq, creq>>

\* Precio.save: the query for the product's documents with activo == true
PrecioSaveGet(h) ==
    /\ preq[h].pc = "save_get"
    /\ preq' = [preq EXCEPT ![h].pc = "save_batch",
                            ![h].leidos = PreciosActivos(preq[h].productoId)]
    /\ UNCHANGED <<reloj, varsSecuencia, varsPedidos, precios, varsStock, ereq, creq>>

\* variant: the previous price is left current
RetiradoMutante(doc) == doc
\* batch.update(doc.ref, { activo: false })
Retirado(doc) == [doc EXCEPT !.activo = FALSE]

\* Precio.save: batch.commit() of the updates of the documents the query returned
PrecioSaveBatch(h) ==
    /\ preq[h].pc = "save_batch"
    /\ precios' = [k \in DOMAIN precios |->
                      IF k \in preq[h].leidos THEN Retirado(precios[k]) ELSE precios[k]]
    /\ preq' = [preq EXCEPT ![h].pc = "save_set", ![h].leidos = {}]
    /\ UNCHANGED <<reloj, varsSecuencia, varsPedidos, varsStock, ereq, creq>>

\* Precio.save: await precioRef.set(precioData), activo being the constructor's
\* default; then 201 (crearPrecio) or 200 (actualizarPrecio)
PrecioSaveSet(h) ==
    /\ preq[h].pc = "save_set"
    /\ precios' = Append(precios, [productoId |-> preq[h].productoId,
                                   precio |-> preq[h].precio,
                                   activo |-> TRUE,
                                   fechaCreacion |-> preq[h].fechaCreacion])
    /\ PrecioResponder(h, IF preq[h].ruta = "crear" THEN 201 ELSE 200)
    /\ UNCHANGED <<reloj, varsSecuencia, varsPedidos, varsStock, ereq, creq>>

\* Precio.save: await precioRef.set(precioData) rejects; save() rethrows and the
\* controller's catch answers 500; the batch committed before stays
PrecioSaveSetFalla(h) ==
    /\ preq[h].pc = "save_set"
    /\ PrecioResponder(h, 500)
    /\ UNCHANGED <<reloj, varsSecuencia, varsPedidos, precios, varsStock, ereq, creq>>

NextPrecios ==
    \/ \E h \in PReqs, productoId \in {"P1", "P2", "PX"} :
            \E precio \in {0, Tarifa[h]} : crearPrecio(h, productoId, precio)
    \/ \E h \in PReqs, productoId \in {"P1", "P2", "PX"} :
            \E precio \in {0, Tarifa[h]} : actualizarPrecio(h, productoId, precio)
    \/ \E h \in PReqs : PrecioBuscarProducto(h)
    \/ \E h \in PReqs : PrecioSaveGet(h)
    \/ \E h \in PReqs : PrecioSaveBatch(h)
    \/ \E h \in PReqs : PrecioSaveSet(h)
    \/ Tick

SpecPrecios == Init /\ [][NextPrecios]_vars

\* the price store when the insert of a save can fail
NextPreciosFallo ==
    \/ NextPrecios
    \/ \E h \in PReqs : PrecioSaveSetFalla(h)

SpecPreciosFallo == Init /\ [][NextPreciosFallo]_vars

(***************************************************************************)
(* The stock ledger's own handlers: stockController.crearStock,            *)
(* actualizarStock and ajustarStock over Stock.save, findByProductoId and  *)
(* updateCantidad.  The free-text ubicacion is left out of the documents.  *)
(***************************************************************************)
\* a stock request: the route, the product id and the body's fields
Peticion(op, productoId, cantidad, minimo, tipo) ==
    [op |-> op, productoId |-> productoId, cantidad |-> cantidad,
     minimo |-> minimo, tipo |-> tipo]

\* the requests the stock handlers are drawn from, against the initial stock
\* of 5 x P1 and 3 x P2, P3 having no stock record and PX being no product
PeticionesStock ==
    { Peticion("crear", "P3", Dado(4), undefined, ""),       \* minimum omitted
      Peticion("crear", "P3", Dado(2), Dado(0), ""),         \* minimum 0
      Peticion("crear", "P3", Dado(2), Dado(3), ""),         \* minimum 3
      Peticion("crear", "P1", Dado(1), undefined, ""),       \* has a stock record
      Peticion("crear", "PX", Dado(1), undefined, ""),       \* no such product
      Peticion("crear", "P3", undefined, undefined, ""),     \* quantity omitted
      Peticion("actualizar", "P1", Dado(0), undefined, ""),
      Peticion("actualizar", "P2", Dado(7), Dado(2), ""),
      Peticion("actualizar", "P2", undefined, Dado(1), ""),  \* minimum only
      Peticion("actualizar", "P3", Dado(1), undefined, ""),  \* no stock record
      Peticion("ajustar", "P1", Dado(2), undefined, "incrementar"),
      Peticion("ajustar", "P1", Dado(2), undefined, "decrementar"),
      Peticion("ajustar", "P1", Dado(7), undefined, "decrementar"),   \* more than 5
      Peticion("ajustar", "P2", Dado(3), undefined, "decrementar"),   \* exactly the stock
      Peticion("ajustar", "P2", Dado(-4), undefined, "incrementar"),  \* negative delta
      Peticion("ajustar", "P2", Dado(-4), undefined, "decrementar"),
      Peticion("ajustar", "P1", Dado(1), undefined, "ajuste"),        \* unknown tipo
      Peticion("ajustar", "P3", Dado(1), undefined, "incrementar") }  \* no stock record

StockActivo(s) == sreq[s].pc \notin {"idle", "fin"}

\* res.status(codigo).json(...): the handler is over; coleccion is the stocks
\* collection it leaves
Respondido(local, codigo, coleccion) ==
    [local EXCEPT !.pc = "fin", !.status = codigo, !.despues = coleccion,
                  !.existente = 0, !.nuevaCantidad = 0, !.stockId = 0]

\* a stock request arrives and runs up to its first await, at position primero
\* (or is answered at once with codigo)
StockLlegar(s, pet, primero, codigo) ==
    /\ sreq[s].pc = "idle"
    /\ sreq' = [q \in SReqs |->
                  IF q = s
                  THEN [StockReqInactivo EXCEPT
                          !.pc = primero, !.op = pet.op, !.productoId = pet.productoId,
                          !.cantidad = pet.cantidad, !.minimo = pet.minimo,
                          !.tipo = pet.tipo, !.status = codigo, !.antes = stocks,
                          !.despues = IF primero = "fin" THEN stocks ELSE <<>>,
                          !.solo = \A o \in SReqs \ {s} : ~StockActivo(o)]
                  ELSE IF StockActivo(q) THEN [sreq[q] EXCEPT !.solo = FALSE]
                  ELSE sreq[q]]
    /\ bitacora' = Append(bitacora, s)
    /\ UNCHANGED <<reloj, varsSecuencia, varsPedidos, varsPrecios, bajo, ereq, creq>>

\* Stock constructor: this.minimo = data.minimo || 5
MinimoDe(minimo) == IF minimo = undefined \/ Valor(minimo) = 0 THEN 5 ELSE Valor(minimo)

\* new Stock({productoId, cantidad, minimo, ubicacion}) as Stock.save writes it
NuevoStock(productoId, cantidad, minimo) ==
    [productoId |-> productoId, cantidad |-> Valor(cantidad),
     minimo |-> MinimoDe(minimo), activo |-> TRUE]

\* POST /stock: if (!productoId || cantidad === undefined) return 400
crearStock(s, pet) ==
    /\ pet.op = "crear"
    /\ IF pet.productoId = "" \/ pet.cantidad = undefined
       THEN StockLlegar(s, pet, "fin", 400)
       ELSE StockLlegar(s, pet, "cs_producto", 0)

\* const producto = await Producto.findById(productoId); 404 when null
CrearBuscarProducto(s) ==
    /\ sreq[s].pc = "cs_producto"
    /\ sreq' = [sreq EXCEPT ![s] = IF ~ProductoFindById(sreq[s].productoId)
                                   THEN Respondido(@, 404, stocks)
                                   ELSE [@ EXCEPT !.pc = "cs_existente"]]
    /\ UNCHANGED <<reloj, varsSecuencia, varsPedidos, varsPrecios, bitacora, bajo, ereq, creq>>

\* variant: the existing record is not looked at
YaExisteMutante(productoId) == FALSE
\* const stockExistente = await Stock.findByProductoId(productoId); if (stockExistente)
YaExiste(productoId) == findByProductoId(productoId) # 0

\* the existence check of crearStock: 409 when the product has a stock record
CrearBuscarStock(s) ==
    /\ sreq[s].pc = "cs_existente"
    /\ sreq' = [sreq EXCEPT ![s] = IF YaExiste(sreq[s].productoId)
                                   THEN Respondido(@, 409, stocks)
                                   ELSE [@ EXCEPT !.pc = "cs_save"]]
    /\ UNCHANGED <<reloj, varsSecuencia, varsPedidos, varsPrecios, bitacora, bajo, ereq, creq>>

\* Stock.save: await stockRef.set(stockData); then 201
StockSave(s) ==
    /\ sreq[s].pc = "cs_save"
    /\ stocks' = Append(stocks, NuevoStock(sreq[s].productoId, sreq[s].cantidad, sreq[s].minimo))
    /\ sreq' = [sreq EXCEPT ![s] = Respondido(@, 201, stocks')]
    /\ UNCHANGED <<reloj, varsSecuencia, pedidos, req, varsPrecios, bitacora, bajo, ereq, creq>>

\* PUT /stock/producto/:productoId
actualizarStock(s, pet) ==
    /\ pet.op = "actualizar"
    /\ StockLlegar(s, pet, "as_existente", 0)

\* const stockExistente = await Stock.findByProductoId(productoId); 404 when
\* null; then updateCantidad when the body has cantidad, the update of minimo
\* when it has minimo, and the 200 response
ActualizarBuscar(s) ==
    /\ sreq[s].pc = "as_existente"
    /\ LET k == findByProductoId(sreq[s].productoId) IN
       sreq' = [sreq EXCEPT ![s] =
                  IF k = 0 THEN Respondido(@, 404, stocks)
                  ELSE IF sreq[s].cantidad # undefined
                  THEN [@ EXCEPT !.pc = "uc_find", !.existente = k,
                                 !.anterior = stocks[k].cantidad,
                                 !.nuevaCantidad = Valor(sreq[s].cantidad)]
                  ELSE IF sreq[s].minimo # undefined
                  THEN [@ EXCEPT !.pc = "as_update", !.existente = k,
                                 !.anterior = stocks[k].cantidad]
                  ELSE Respondido([@ EXCEPT !.anterior = stocks[k].cantidad], 200, stocks)]
    /\ UNCHANGED <<reloj, varsSecuencia, varsPedidos, varsPrecios, bitacora, bajo, ereq, creq>>

\* await db.collection('stocks').doc(stockExistente.id).update({minimo}); then 200
ActualizarMinimo(s) ==
    /\ sreq[s].pc = "as_update"
    /\ stocks' = [stocks EXCEPT ![sreq[s].existente].minimo = Valor(sreq[s].minimo)]
    /\ sreq' = [sreq EXCEPT ![s] = Respondido(@, 200, stocks')]
    /\ UNCHANGED <<reloj, varsSecuencia, pedidos, req, varsPrecios, bitacora, bajo, ereq, creq>>

\* PATCH /stock/ajustar/:productoId
ajustarStock(s, pet) ==
    /\ pet.op = "ajustar"
    /\ StockLlegar(s, pet, "aj_existente", 0)

\* variant: the decrement is not checked against the stock
InsuficienteMutante(cantidad) == FALSE
\* if (nuevaCantidad < 0)
Insuficiente(cantidad) == cantidad < 0

\* variant: both kinds of adjustment add
AjustadaMutante(tipo, anterior, delta) == anterior + delta
\* stockExistente.cantidad + cantidad, or stockExistente.cantidad - cantidad
Ajustada(tipo, anterior, delta) ==
    IF tipo = "incrementar" THEN anterior + delta ELSE anterior - delta

\* const stockExistente = await Stock.findByProductoId(productoId); 404 when
\* null; nuevaCantidad from tipo and cantidad, 400 for a decrement below zero
\* and for any other tipo
AjustarBuscar(s) ==
    /\ sreq[s].pc = "aj_existente"
    /\ LET k == findByProductoId(sreq[s].productoId)
           delta == Valor(sreq[s].cantidad)
       IN sreq' = [sreq EXCEPT ![s] =
                  IF k = 0 THEN Respondido(@, 404, stocks)
                  ELSE IF sreq[s].tipo = "incrementar"
                  THEN [@ EXCEPT !.pc = "uc_find", !.existente = k,
                                 !.anterior = stocks[k].cantidad,
                                 !.nuevaCantidad = Ajustada("incrementar", stocks[k].cantidad, delta)]
                  ELSE IF sreq[s].tipo = "decrementar"
                  THEN IF Insuficiente(Ajustada("decrementar", stocks[k].cantidad, delta))
                       THEN Respondido([@ EXCEPT !.anterior = stocks[k].cantidad], 400, stocks)
                       ELSE [@ EXCEPT !.pc = "uc_find", !.existente = k,
                                      !.anterior = stocks[k].cantidad,
                                      !.nuevaCantidad =
                                          Ajustada("decrementar", stocks[k].cantidad, delta)]
                  ELSE Respondido([@ EXCEPT !.anterior = stocks[k].cantidad], 400, stocks)]
    /\ UNCHANGED <<reloj, varsSecuencia, varsPedidos, varsPrecios, bitacora, bajo, ereq, creq>>

\* Stock.updateCantidad: const stock = await this.findByProductoId(productoId);
\* 'Stock no encontrado' is thrown when null, and the controller answers 500
StockUpdateFind(s) ==
    /\ sreq[s].pc = "uc_find"
    /\ LET k == findByProductoId(sreq[s].productoId) IN
       sreq' = [sreq EXCEPT ![s] = IF k = 0 THEN Respondido(@, 500, stocks)
                                   ELSE [@ EXCEPT !.pc = "uc_write", !.stockId = k]]
    /\ UNCHANGED <<reloj, varsSecuencia, varsPedidos, varsPrecios, bitacora, bajo, ereq, creq>>

\* variant: the new quantity is added to the stored one
SobrescritaMutante(coleccion, k, q) == [coleccion EXCEPT ![k].cantidad = @ + q]
\* doc(stock.id).update({cantidad: nuevaCantidad})
Sobrescrita(coleccion, k, q) == [coleccion EXCEPT ![k].cantidad = q]

\* Stock.updateCantidad: await doc(stock.id).update({cantidad: nuevaCantidad});
\* back in the controller, actualizarStock goes on to the minimo, ajustarStock
\* answers 200
StockUpdateWrite(s) ==
    /\ sreq[s].pc = "uc_write"
    /\ stocks' = Sobrescrita(stocks, sreq[s].stockId, sreq[s].nuevaCantidad)
    /\ sreq' = [sreq EXCEPT ![s] =
                  IF sreq[s].op = "actualizar" /\ sreq[s].minimo # undefined
                  THEN [@ EXCEPT !.pc = "as_update", !.nuevaCantidad = 0, !.stockId = 0]
                  ELSE Respondido(@, 200, stocks')]
    /\ UNCHANGED <<reloj, varsSecuencia, pedidos, req, varsPrecios, bitacora, bajo, ereq, creq>>

NextStock ==
    \/ \E s \in SReqs, pet \in PeticionesStock : crearStock(s, pet)
    \/ \E s \in SReqs, pet \in PeticionesStock : actualizarStock(s, pet)
    \/ \E s \in SReqs, pet \in PeticionesStock : ajustarStock(s, pet)
    \/ \E s \in SReqs : CrearBuscarProducto(s)
    \/ \E s \in SReqs : CrearBuscarStock(s)
    \/ \E s \in SReqs : StockSave(s)
    \/ \E s \in SReqs : ActualizarBuscar(s)
    \/ \E s \in SReqs : ActualizarMinimo(s)
    \/ \E s \in SReqs : AjustarBuscar(s)
    \/ \E s \in SReqs : StockUpdateFind(s)
    \/ \E s \in SReqs : StockUpdateWrite(s)

SpecStock == Init /\ [][NextStock]_vars

(***************************************************************************)
(* The low-stock query alone: Stock.findAllBajoStock over any two stock    *)
(* documents, active or not.                                               *)
(***************************************************************************)
RegistrosBajo ==
    [productoId : {"P1", "P2"}, cantidad : 0 .. MaxCantidad, minimo : 0 .. MaxCantidad,
     activo : BOOLEAN]

InitBajo ==
    /\ contadores = [c \in Colecciones |-> SinDocumento]
    /\ reloj = 0
    /\ seq = [p \in Procs |-> SeqInactivo]
    /\ devueltos = <<>>
    /\ fmt = FmtInactivo
    /\ stocks \in [DOMAIN StocksIniciales -> RegistrosBajo]
    /\ pedidos = <<>>
    /\ req = [r \in Reqs |-> ReqInactivo]
    /\ InitGestion

\* variant: a record at its minimum is not low
EsBajoMutante(stock) == stock.cantidad < stock.minimo
\* .filter(stock => stock.cantidad <= stock.minimo)
EsBajo(stock) == stock.cantidad <= stock.minimo

\* Stock.findAllBajoStock: the documents with activo == true, in document
\* order, filtered by the application
findAllBajoStock ==
    LET docs == SelectSeq([k \in DOMAIN stocks |-> k], LAMBDA k : stocks[k].activo)
    IN SelectSeq(docs, LAMBDA k : EsBajo(stocks[k]))

\* const stockBajo = await Stock.findAllBajoStock()
ObtenerStockBajo ==
    /\ bajo.pc = "idle"
    /\ bajo' = [pc |-> "fin", resultado |-> findAllBajoStock]
    /\ UNCHANGED <<reloj, varsSecuencia, varsPedidos, varsPrecios, sreq, bitacora, ereq, creq>>

NextBajo == ObtenerStockBajo

SpecBajo == InitBajo /\ [][NextBajo]_vars

(***************************************************************************)
(* The order-status handler: pedidoController.actualizarEstado over        *)
(* Pedido.updateEstado, on the collection left by one placed order.        *)
(***************************************************************************)
\* the order that request r1 placed with the first body of Cuerpos, alone
PedidoInicial ==
    [id |-> generateId("pedidos", getInitialValue("pedidos")),
     numero |-> Cadena(<<"P", "E", "D", "-">> \o StringDe(today.year)
                       \o padStart(StringDe(today.month + 1), 2) \o <<"-">>
                       \o padStart(StringDe(1), 4)),
     cliente |-> "r1",
     productos |-> <<Item("P1", 2, 100), Item("P2", 1, 50)>>,
     total |-> calcularTotal(<<Item("P1", 2, 100), Item("P2", 1, 50)>>),
     estado |-> "pendiente",
     vendedorId |-> Sesion["r1"]]

\* an id that no order has
PedidoAjeno == generateId("pedidos", getInitialValue("pedidos") + 1)

InitEstado ==
    /\ contadores = [c \in Colecciones |->
                        IF c = "pedidos"
                        THEN [existe |-> TRUE, secuencia |-> getInitialValue("pedidos")]
                        ELSE SinDocumento]
    /\ reloj = 0
    /\ seq = [p \in Procs |-> SeqInactivo]
    /\ devueltos = <<>>
    /\ fmt = FmtInactivo
    /\ stocks = [k \in DOMAIN StocksIniciales |->
                    [StocksIniciales[k] EXCEPT
                        !.cantidad = @ - PedidoInicial.productos[k].cantidad]]
    /\ pedidos = <<PedidoInicial>>
    /\ req = [r \in Reqs |-> ReqInactivo]
    /\ InitGestion

\* variant: an order cannot be cancelled through this route
estadosValidosMutante == {"pendiente", "confirmado", "en_proceso", "enviado", "entregado"}
estadosValidos ==
    {"pendiente", "confirmado", "en_proceso", "enviado", "entregado", "cancelado"}

\* the bodies' estado: the six tokens, two unknown ones and a missing one ("")
EstadosPedidos ==
    {"pendiente", "confirmado", "en_proceso", "enviado", "entregado", "cancelado",
     "cancelled", "not_a_status", ""}

EstadoActivo(e) == ereq[e].pc \notin {"idle", "fin"}

\* PATCH /pedidos/:id/estado: if (!estadosValidos.includes(estado)) return 400
actualizarEstado(e, id, estado) ==
    /\ ereq[e].pc = "idle"
    /\ ereq' = [q \in EReqs |->
                  IF q = e
                  THEN [EstadoInactivo EXCEPT
                          !.pc = IF estado \notin estadosValidos THEN "fin" ELSE "ue_find",
                          !.status = IF estado \notin estadosValidos THEN 400 ELSE 0,
                          !.id = id, !.estado = estado, !.antes = pedidos,
                          !.despues = IF estado \notin estadosValidos THEN pedidos ELSE <<>>,
                          !.solo = \A o \in EReqs \ {e} : ~EstadoActivo(o)]
                  ELSE IF EstadoActivo(q) THEN [ereq[q] EXCEPT !.solo = FALSE]
                  ELSE ereq[q]]
    /\ UNCHANGED <<reloj, varsSecuencia, varsPedidos, varsPrecios, varsStock, creq>>

\* Pedido.updateEstado: the query where('id', '==', id).limit(1); 'Pedido no
\* encontrado' is thrown when it is empty, and the controller answers 500
UpdateEstadoFind(e) ==
    /\ ereq[e].pc = "ue_find"
    /\ LET docs == {k \in DOMAIN pedidos : pedidos[k].id = ereq[e].id} IN
       ereq' = [ereq EXCEPT ![e] =
                  IF docs = {}
                  THEN [@ EXCEPT !.pc = "fin", !.status = 500, !.despues = pedidos]
                  ELSE [@ EXCEPT !.pc = "ue_write",
                                 !.doc = CHOOSE k \in docs : \A j \in docs : k <= j]]
    /\ UNCHANGED <<reloj, varsSecuencia, varsPedidos, varsPrecios, varsStock, creq>>

\* Pedido.updateEstado: await doc(doc.id).update({estado: nuevoEstado}); then 200
UpdateEstadoWrite(e) ==
    /\ ereq[e].pc = "ue_write"
    /\ pedidos' = [pedidos EXCEPT ![ereq[e].doc].estado = ereq[e].estado]
    /\ ereq' = [ereq EXCEPT ![e].pc = "fin", ![e].status = 200, ![e].doc = 0,
                            ![e].despues = pedidos']
    /\ UNCHANGED <<reloj, varsSecuencia, stocks, req, varsPrecios, varsStock, creq>>

NextEstado ==
    \/ \E e \in EReqs, id \in {PedidoInicial.id, PedidoAjeno}, estado \in EstadosPedidos :
            actualizarEstado(e, id, estado)
    \/ \E e \in EReqs : UpdateEstadoFind(e)
    \/ \E e \in EReqs : UpdateEstadoWrite(e)

SpecEstado == InitEstado /\ [][NextEstado]_vars

(***************************************************************************)
(* The life of an order: orders are placed by crearPedido on the initial   *)
(* database and their status is changed by actualizarEstado, in any        *)
(* interleaving.                                                           *)
(***************************************************************************)
\* the body of the placed orders
CuerposCiclo == { <<Item("P1", 2, 100), Item("P2", 1, 50)>> }

\* the bodies' estado of the status call: a recognized token and an unknown one
EstadosCiclo == {"enviado", "not_a_status"}

NextCiclo ==
    \/ \E r \in Reqs, productos \in CuerposCiclo : crearPedido(r, productos, Sesion[r])
    \/ \E r \in Reqs : ValidarStock(r)
    \/ \E r \in Reqs : TxGet(r)
    \/ \E r \in Reqs : TxCommit(r)
    \/ \E r \in Reqs : TxReintento(r)
    \/ \E r \in Reqs : TxFalla(r)
    \/ \E r \in Reqs : SaveNumero(r)
    \/ \E r \in Reqs : SaveSet(r)
    \/ \E r \in Reqs : DebitarLeer(r)
    \/ \E r \in Reqs : UpdateCantidadFind(r)
    \/ \E r \in Reqs : UpdateCantidadWrite(r)
    \/ \E id \in {PedidoInicial.id, PedidoAjeno}, estado \in EstadosCiclo :
            actualizarEstado("e1", id, estado)
    \/ UpdateEstadoFind("e1")
    \/ UpdateEstadoWrite("e1")

SpecCiclo == Init /\ [][NextCiclo]_vars

(***************************************************************************)
(* The order queries: pedidoController.obtenerPedidos and obtenerPedido    *)
(* over Pedido.findAll, findByVendedor and findById, on any collection of  *)
(* two orders placed by the users of Usuarios.                             *)
(***************************************************************************)
\* the k-th order of the month, placed by vendedorId
PedidoN(k, vendedorId) ==
    [PedidoInicial EXCEPT
        !.id = generateId("pedidos", getInitialValue("pedidos") + k - 1),
        !.numero = Cadena(<<"P", "E", "D", "-">> \o StringDe(today.year)
                          \o padStart(StringDe(today.month + 1), 2) \o <<"-">>
                          \o padStart(StringDe(k), 4)),
        !.vendedorId = vendedorId]

\* req.user.rol: the two roles of the application, and one it does not know
Roles == {"empleado", "admin", "supervisor"}

InitConsulta ==
    /\ contadores = [c \in Colecciones |->
                        IF c = "pedidos"
                        THEN [existe |-> TRUE, secuencia |-> getInitialValue("pedidos") + 1]
                        ELSE SinDocumento]
    /\ reloj = 0
    /\ seq = [p \in Procs |-> SeqInactivo]
    /\ devueltos = <<>>
    /\ fmt = FmtInactivo
    /\ stocks = StocksIniciales
    /\ pedidos \in {<<PedidoN(1, v), PedidoN(2, w)>> : v \in Usuarios, w \in Usuarios}
    /\ req = [r \in Reqs |-> ReqInactivo]
    /\ InitGestion

RECURSIVE Invertida(_)
\* orderBy('fechaCreacion', 'desc'): the documents, newest first
Invertida(docs) ==
    IF docs = <<>> THEN <<>> ELSE Invertida(Tail(docs)) \o <<Head(docs)>>

\* Pedido.findAll
findAll == Invertida([k \in DOMAIN pedidos |-> k])

\* variant: the vendor filter is dropped
findByVendedorMutante(vendedorId) == findAll
\* Pedido.findByVendedor: where('vendedorId', '==', vendedorId)
findByVendedor(vendedorId) ==
    SelectSeq(findAll, LAMBDA k : pedidos[k].vendedorId = vendedorId)

\* Pedido.findById: where('id', '==', id).limit(1), 0 for null
PedidoFindById(id) ==
    LET docs == {k \in DOMAIN pedidos : pedidos[k].id = id}
    IN IF docs = {} THEN 0 ELSE CHOOSE k \in docs : \A j \in docs : k <= j

\* GET /pedidos by the user userId of role rol
obtenerPedidos(rol, userId) ==
    /\ creq.pc = "idle"
    /\ creq' = [ConsultaInactiva EXCEPT !.pc = "listar", !.op = "listar",
                                        !.rol = rol, !.userId = userId]
    /\ UNCHANGED <<reloj, varsSecuencia, varsPedidos, varsPrecios, varsStock, ereq>>

\* pedidos = await Pedido.findByVendedor(req.user.id) for an 'empleado',
\* await Pedido.findAll() for anyone else; then 200
ListarPedidos ==
    /\ creq.pc = "listar"
    /\ creq' = [creq EXCEPT !.pc = "fin", !.status = 200,
                            !.resultado = IF creq.rol = "empleado"
                                          THEN findByVendedor(creq.userId)
                                          ELSE findAll]
    /\ UNCHANGED <<reloj, varsSecuencia, varsPedidos, varsPrecios, varsStock, ereq>>

\* GET /pedidos/:id by the user userId of role rol
obtenerPedido(rol, userId, id) ==
    /\ creq.pc = "idle"
    /\ creq' = [ConsultaInactiva EXCEPT !.pc = "buscar", !.op = "buscar",
                                        !.rol = rol, !.userId = userId, !.id = id]
    /\ UNCHANGED <<reloj, varsSecuencia, varsPedidos, varsPrecios, varsStock, ereq>>

\* const pedido = await Pedido.findById(id): 404 when null, 403 for an
\* 'empleado' who is not the order's vendedor, else 200
BuscarPedido ==
    /\ creq.pc = "buscar"
    /\ LET k == PedidoFindById(creq.id) IN
       creq' = IF k = 0
               THEN [creq EXCEPT !.pc = "fin", !.status = 404]
               ELSE IF creq.rol = "empleado" /\ pedidos[k].vendedorId # creq.userId
               THEN [creq EXCEPT !.pc = "fin", !.status = 403]
               ELSE [creq EXCEPT !.pc = "fin", !.status = 200, !.resultado = <<k>>]
    /\ UNCHANGED <<reloj, varsSecuencia, varsPedidos, varsPrecios, varsStock, ereq>>

NextConsulta ==
    \/ \E rol \in Roles, userId \in Usuarios : obtenerPedidos(rol, userId)
    \/ ListarPedidos
    \/ \E rol \in Roles, userId \in Usuarios :
          \E k \in 1 .. (Len(pedidos) + 1) : obtenerPedido(rol, userId, PedidoN(k, userId).id)
    \/ BuscarPedido

SpecConsulta == InitConsulta /\ [][NextConsulta]_vars

(***************************************************************************)
(* Claims about order placement (checked under Spec).                      *)
(***************************************************************************)
\* quantity of the product's active stock record in a stocks collection, -1 if none
CantidadEn(coleccion, productoId) ==
    LET activos == {k \in DOMAIN coleccion :
                        coleccion[k].productoId = productoId /\ coleccion[k].activo}
    IN IF activos = {} THEN -1 ELSE coleccion[CHOOSE k \in activos : TRUE].cantidad

RECURSIVE SumaLineas(_, _)
\* sum of precio x cantidad over the line items at the positions in S
SumaLineas(productos, S) ==
    IF S = {} THEN 0
    ELSE LET k == CHOOSE k \in S : TRUE
         IN productos[k].precio * productos[k].cantidad + SumaLineas(productos, S \ {k})

ProductosDistintos(productos) ==
    \A a, b \in DOMAIN productos : a # b => productos[a].productoId # productos[b].productoId

PedidosDe(r) == {k \in DOMAIN pedidos : pedidos[k].cliente = r}

\* request r took a step of its handler
PasoDe(r) == req'[r].pc # req[r].pc \/ req'[r].i # req[r].i

\* C1: a place-order that ran alone, with pairwise distinct products each within
\* its active stock, persisted one order whose total is the sum of unit price x
\* quantity and whose status is 'pendiente', and left every product's stock at
\* its previous quantity minus the ordered quantity.
C1_PedidoSolo ==
    \A r \in Reqs :
        LET productos == req[r].productos IN
        ( /\ req[r].pc = "fin"
          /\ req[r].solo
          /\ ProductosDistintos(productos)
          /\ \A n \in DOMAIN productos :
                productos[n].cantidad <= CantidadEn(req[r].antes, productos[n].productoId) )
        => /\ req[r].status = 201
           /\ Cardinality(PedidosDe(r)) = 1
           /\ \A k \in PedidosDe(r) :
                 /\ pedidos[k].total = SumaLineas(productos, DOMAIN productos)
                 /\ pedidos[k].estado = "pendiente"
                 /\ pedidos[k].productos = productos
           /\ \A n \in DOMAIN productos :
                 CantidadEn(stocks, productos[n].productoId)
                    = CantidadEn(req[r].antes, productos[n].productoId) - productos[n].cantidad

\* the order of 2 x P1 at 100 and 1 x P2 at 50 against stocks 5 and 3 ran alone:
\* total 250, pending, stocks 3 and 2
C1_Testigo ==
    \E r \in Reqs :
        /\ req[r].pc = "fin" /\ req[r].solo /\ req[r].status = 201
        /\ req[r].productos = <<Item("P1", 2, 100), Item("P2", 1, 50)>>
        /\ CantidadEn(req[r].antes, "P1") = 5 /\ CantidadEn(req[r].antes, "P2") = 3
        /\ \E k \in PedidosDe(r) : pedidos[k].total = 250 /\ pedidos[k].estado = "pendiente"
        /\ CantidadEn(stocks, "P1") = 3 /\ CantidadEn(stocks, "P2") = 2

\* C2: a line item that asks for more than the active stock of its product, or
\* whose product has no active stock record, fails the request with
\* 'Stock insuficiente' for that product; the validation pass writes neither a
\* stock record nor an order, and the failed request has persisted no order and,
\* when it ran alone, left the stocks as they were.
C2_ValidacionSinEscritura ==
    /\ [][\A r \in Reqs :
            (req[r].pc = "validar" /\ PasoDe(r)) =>
                LET item == req[r].productos[req[r].i] IN
                /\ stocks' = stocks
                /\ pedidos' = pedidos
                /\ (item.cantidad > CantidadEn(stocks, item.productoId))
                     => /\ req'[r].pc = "fin"
                        /\ req'[r].status = 400
                        /\ req'[r].error = item.productoId]_vars
    /\ [](\A r \in Reqs :
            req[r].status = 400 =>
                /\ PedidosDe(r) = {}
                /\ req[r].solo => stocks = req[r].antes)

\* a request failed at its second line item, after the first one passed
C2_Testigo ==
    \E r \in Reqs :
        /\ req[r].pc = "fin" /\ req[r].status = 400
        /\ req[r].i = 2
        /\ req[r].error = req[r].productos[2].productoId
        /\ PedidosDe(r) = {}

\* C3: under any interleaving of concurrent place-order requests, every active
\* stock record's quantity is >= 0 in every reachable state (stated for requests
\* whose line items name pairwise distinct products, so that only the
\* interleaving of the requests is in play).
C3_StockNoNegativo ==
    (\A r \in Reqs : ProductosDistintos(req[r].productos))
        => \A k \in DOMAIN stocks : stocks[k].activo => stocks[k].cantidad >= 0

\* C4: in the debit pass, a re-fetched stock quantity smaller than the line
\* item's quantity fails the debit with insufficient stock and leaves the
\* product's stock quantity unchanged.
C4_DebitoInsuficienteFalla ==
    [][\A r \in Reqs :
        /\ (req[r].pc = "debitar" /\ PasoDe(r)) =>
              LET item == req[r].productos[req[r].i] IN
              (CantidadEn(stocks, item.productoId) >= 0
                 /\ CantidadEn(stocks, item.productoId) < item.cantidad)
                => (req'[r].pc = "fin" /\ req'[r].status = 400 /\ stocks' = stocks)
        /\ (req[r].pc = "upd_write" /\ PasoDe(r)) =>
              (req[r].nuevaCantidad < 0 => stocks' = stocks)]_vars

(***************************************************************************)
(* Claims about the sequence generator (checked under SpecSecuencia).      *)
(***************************************************************************)
\* the completed calls for collection t, in order of completion
DevueltosDe(t) == SelectSeq(devueltos, LAMBDA e : e.tipo = t)

\* C5: no two getNext calls of one entity type that complete through the counter
\* transaction return the same value, whatever the interleaving of the callers.
C5_UnicosPorTransaccion ==
    \A i, j \in DOMAIN devueltos :
        (i < j /\ devueltos[i].tipo = devueltos[j].tipo
               /\ devueltos[i].via = "tx" /\ devueltos[j].via = "tx")
            => devueltos[i].valor # devueltos[j].valor

\* two first callers of one collection raced: the loser read no counter, met the
\* winner's write at commit, ran again, and both completed through the transaction
C5_Testigo ==
    \E i, j \in DOMAIN devueltos :
        /\ i < j /\ devueltos[i].tipo = devueltos[j].tipo
        /\ devueltos[i].quien # devueltos[j].quien
        /\ devueltos[i].via = "tx" /\ devueltos[j].via = "tx"
        /\ devueltos[i].valor = getInitialValue(devueltos[i].tipo)
        /\ devueltos[j].intentos > 0

\* C6: a value returned on the fallback path differs from every other value
\* returned for the same entity type, transactional or fallback.
C6_FallbackUnico ==
    \A i, j \in DOMAIN devueltos :
        (i # j /\ devueltos[i].tipo = devueltos[j].tipo /\ devueltos[i].via = "fallback")
            => devueltos[i].valor # devueltos[j].valor

\* C7: every value returned for an entity type is strictly greater than every
\* value returned by a call for that type that completed earlier.
C7_Monotono ==
    \A i, j \in DOMAIN devueltos :
        (i < j /\ devueltos[i].tipo = devueltos[j].tipo)
            => devueltos[i].valor < devueltos[j].valor

\* C8: N sequential calls for a collection whose counter did not exist, all from
\* one caller and none failing, return initial, initial+1, ..., initial+N-1.
C8_SecuencialDesdeInicial ==
    \A t \in Colecciones, g \in Generadores :
        LET es == DevueltosDe(t) IN
            (\A k \in DOMAIN es : es[k].quien = g /\ es[k].via = "tx")
                => \A k \in DOMAIN es : es[k].valor = getInitialValue(t) + (k - 1)

\* one caller has completed two calls or more for one collection, without failure
C8_Testigo ==
    \E t \in Colecciones, g \in Generadores :
        LET es == DevueltosDe(t) IN
            /\ Len(es) >= 2
            /\ \A k \in DOMAIN es : es[k].quien = g /\ es[k].via = "tx"

\* C9: the first getNext for productos returns 1000 and the first for categorias
\* returns 10, and the six initial values are pairwise distinct.
C9_ValoresIniciales ==
    /\ \A i \in DOMAIN devueltos :
          (devueltos[i].via = "tx" /\ Len(DevueltosDe(devueltos[i].tipo)) = 1)
            => /\ devueltos[i].tipo = "productos" => devueltos[i].valor = 1000
               /\ devueltos[i].tipo = "categorias" => devueltos[i].valor = 10
    /\ \A a, b \in DOMAIN initialValues :
          a # b => getInitialValue(a) # getInitialValue(b)

(***************************************************************************)
(* Claim about the identifier formatter (checked under SpecFormato).       *)
(***************************************************************************)
Prefijo(t) ==
    CASE t = "productos"  -> <<"P", "R", "O", "D", "-">>
      [] t = "pedidos"    -> <<"P", "E", "D", "-">>
      [] t = "categorias" -> <<"C", "A", "T", "-">>
      [] t = "usuarios"   -> <<"U", "S", "E", "R", "-">>
      [] t = "precios"    -> <<"P", "R", "I", "C", "E", "-">>
      [] t = "stocks"     -> <<"S", "T", "O", "C", "K", "-">>
      [] OTHER            -> <<"I", "D", "-">>

Ancho(t) ==
    CASE t \in {"productos", "precios", "stocks"} -> 4
      [] t = "pedidos"                            -> 5
      [] t \in {"categorias", "usuarios"}         -> 3
      [] OTHER                                    -> 0

\* C10: format(entityType, n) is the type's prefix followed by the decimal digits
\* of n, left-padded with zeros to the type's width and never truncated; any
\* entity type other than the six known ones yields 'ID-' followed by n.
C10_Formato ==
    fmt.pc = "salida" =>
        /\ fmt.salida.tipo = "string"
        /\ LET s == fmt.salida.valor
               pre == Prefijo(fmt.tipo)
               d == StringDe(fmt.n)
               largo == IF Len(d) > Ancho(fmt.tipo) THEN Len(d) ELSE Ancho(fmt.tipo)
           IN /\ Len(s) = Len(pre) + largo
              /\ SubSeq(s, 1, Len(pre)) = pre
              /\ SubSeq(s, Len(s) - Len(d) + 1, Len(s)) = d
              /\ \A k \in (Len(pre) + 1) .. (Len(s) - Len(d)) : s[k] = "0"

(***************************************************************************)
(* Claims about the price version store (checked under SpecPrecios).       *)
(***************************************************************************)
\* the requests that saved a price for product p
PrecioHechos(p) ==
    {h \in PReqs : preq[h].productoId = p /\ preq[h].pc = "fin" /\ preq[h].status \in {200, 201}}

\* every price request made for p so far is over, and no two overlapped
PrecioSecuencial(p) ==
    \A h \in PReqs :
        (preq[h].pc # "idle" /\ preq[h].productoId = p)
            => preq[h].pc = "fin" /\ (preq[h].status \in {200, 201} => preq[h].solo)

\* the documents of product p, whatever their flag
PreciosDe(p) == {k \in DOMAIN precios : precios[k].productoId = p}

\* C11: for every product, once no price request for it is in flight, at most
\* one of its price records is current, whatever the interleaving of the
\* requests was.
C11_UnPrecioVigente ==
    \A p \in Productos :
        (\A h \in PReqs : ~(PrecioActivo(h) /\ preq[h].productoId = p))
            => Cardinality(PreciosActivos(p)) <= 1

\* C12: after K price requests for product P that ran one after the other and
\* succeeded, starting from no price records, the history of P has exactly K
\* records, exactly one of them is current, it is the one inserted last, and
\* the current-price query returns it.
C12_HistorialSecuencial ==
    \A p \in Productos :
        PrecioSecuencial(p) =>
            LET K == Cardinality(PrecioHechos(p))
                H == findHistorialByProductoId(p)
            IN /\ Len(H) = K
               /\ {H[n] : n \in DOMAIN H} = PreciosDe(p)
               /\ K > 0 =>
                    \E u \in PreciosDe(p) :
                        /\ \A k \in PreciosDe(p) : k <= u
                        /\ PreciosActivos(p) = {u}
                        /\ PrecioFindByProductoId(p) = u

\* three requests priced one product one after the other: three records, the
\* first two retired, the third current
C12_Testigo ==
    \E p \in Productos :
        /\ PrecioSecuencial(p)
        /\ Cardinality(PrecioHechos(p)) = 3
        /\ Len(findHistorialByProductoId(p)) = 3
        /\ \E u \in PreciosDe(p) :
              /\ PreciosActivos(p) = {u}
              /\ Cardinality({k \in PreciosDe(p) : k < u /\ ~precios[k].activo}) = 2

(***************************************************************************)
(* Claims about the stock ledger's handlers (checked under SpecStock).     *)
(***************************************************************************)
\* the active stock records of the product in a stocks collection
StocksActivosEn(coleccion, productoId) ==
    {k \in DOMAIN coleccion : coleccion[k].productoId = productoId /\ coleccion[k].activo}

TieneStock(coleccion, productoId) == StocksActivosEn(coleccion, productoId) # {}

\* the quantity of the product's (first) active stock record
CantidadDe(coleccion, productoId) ==
    LET activos == StocksActivosEn(coleccion, productoId)
    IN coleccion[CHOOSE k \in activos : \A j \in activos : k <= j].cantidad

\* the stock request s was answered, and no other was in flight while it ran
StockSolo(s, op) == sreq[s].pc = "fin" /\ sreq[s].op = op /\ sreq[s].solo

\* the records of every product but productoId are the same in both collections
OtrosIguales(a, b, productoId) ==
    /\ Len(a) = Len(b)
    /\ \A k \in DOMAIN a : a[k].productoId # productoId => b[k] = a[k]

\* C13: a stock create for an id that is no product is answered 404, one for a
\* product that has an active stock record is answered 409, and neither
\* creates or modifies a stock record; any other create (with its quantity
\* given) adds one active record with that quantity.
C13_CrearStock ==
    /\ [][\A s \in SReqs :
            (sreq[s].op = "crear" /\ StockActivo(s) /\ sreq'[s].status \in {404, 409})
                => stocks' = stocks]_vars
    /\ [](\A s \in SReqs :
            (StockSolo(s, "crear") /\ sreq[s].cantidad # undefined) =>
                LET antes == sreq[s].antes
                    despues == sreq[s].despues
                IN IF ~ProductoFindById(sreq[s].productoId)
                   THEN sreq[s].status = 404 /\ despues = antes
                   ELSE IF TieneStock(antes, sreq[s].productoId)
                   THEN sreq[s].status = 409 /\ despues = antes
                   ELSE /\ sreq[s].status = 201
                        /\ Len(despues) = Len(antes) + 1
                        /\ SubSeq(despues, 1, Len(antes)) = antes
                        /\ despues[Len(despues)].productoId = sreq[s].productoId
                        /\ despues[Len(despues)].cantidad = Valor(sreq[s].cantidad)
                        /\ despues[Len(despues)].activo)

\* a create for a product without stock succeeded, and the next create for the
\* same product was refused with 409
C13_Testigo ==
    \E a, b \in SReqs :
        /\ StockSolo(a, "crear") /\ StockSolo(b, "crear")
        /\ bitacora = <<a, b>>
        /\ sreq[a].productoId = sreq[b].productoId
        /\ sreq[a].status = 201 /\ TieneStock(sreq[a].despues, sreq[a].productoId)
        /\ sreq[b].status = 409 /\ sreq[b].despues = sreq[a].despues

\* C14: in every reachable state every product has at most one active stock
\* record, whatever the interleaving of the stock create requests.
C14_UnStockActivo ==
    \A p \in IdsProducto : Cardinality(StocksActivosEn(stocks, p)) <= 1

\* C15: an adjustment of kind decrease by more than the product's current
\* quantity is answered with the insufficient-stock error (400) and leaves the
\* stored quantity unchanged; by at most the current quantity it succeeds and
\* the stored quantity becomes the previous one minus delta.
C15_Decrementar ==
    \A s \in SReqs :
        ( /\ StockSolo(s, "ajustar") /\ sreq[s].tipo = "decrementar"
          /\ TieneStock(sreq[s].antes, sreq[s].productoId) ) =>
            LET P == sreq[s].productoId
                delta == Valor(sreq[s].cantidad)
                previa == CantidadDe(sreq[s].antes, P)
            IN IF delta > previa
               THEN sreq[s].status = 400 /\ sreq[s].despues = sreq[s].antes
               ELSE /\ sreq[s].status = 200
                    /\ CantidadDe(sreq[s].despues, P) = previa - delta
                    /\ OtrosIguales(sreq[s].antes, sreq[s].despues, P)

\* a decrease by 7 of a stock of 5 was refused, then a decrease within the
\* stock was applied
C15_Testigo ==
    \E a, b \in SReqs :
        /\ StockSolo(a, "ajustar") /\ StockSolo(b, "ajustar")
        /\ sreq[a].tipo = "decrementar" /\ sreq[b].tipo = "decrementar"
        /\ sreq[a].status = 400 /\ Valor(sreq[a].cantidad) = 7
        /\ CantidadDe(sreq[a].antes, sreq[a].productoId) = 5
        /\ sreq[a].despues = sreq[a].antes
        /\ sreq[b].status = 200 /\ Valor(sreq[b].cantidad) > 0
        /\ CantidadDe(sreq[b].despues, sreq[b].productoId)
              = CantidadDe(sreq[b].antes, sreq[b].productoId) - Valor(sreq[b].cantidad)

C18_Sobrescribir ==
    \A s \in SReqs :
        (StockSolo(s, "actualizar") /\ sreq[s].cantidad # undefined) =>
            LET P == sreq[s].productoId IN
            IF TieneStock(sreq[s].antes, P)
            THEN /\ sreq[s].status = 200
                 /\ CantidadDe(sreq[s].despues, P) = Valor(sreq[s].cantidad)
                 /\ OtrosIguales(sreq[s].antes, sreq[s].despues, P)
            ELSE sreq[s].status = 404 /\ sreq[s].despues = sreq[s].antes

\* P2 was set to 7 after an earlier request had changed its quantity from the
\* initial 3, and P1 kept its record
C18_Testigo ==
    \E a, b \in SReqs :
        /\ bitacora = <<a, b>>
        /\ StockSolo(a, "ajustar") /\ sreq[a].productoId = "P2" /\ sreq[a].status = 200
        /\ StockSolo(b, "actualizar") /\ sreq[b].productoId = "P2" /\ sreq[b].status = 200
        /\ CantidadDe(sreq[b].antes, "P2") # 3
        /\ CantidadDe(sreq[b].despues, "P2") = 7
        /\ CantidadDe(sreq[b].despues, "P1") = 5

\* C19: a stock record created with a minimum given by the caller stores that
\* minimum, 0 included; the default 5 is stored only when the minimum is
\* omitted.
C19_MinimoExacto ==
    \A s \in SReqs :
        (sreq[s].pc = "fin" /\ sreq[s].op = "crear" /\ sreq[s].status = 201) =>
            LET creado == sreq[s].despues[Len(sreq[s].despues)]
            IN creado.minimo = IF sreq[s].minimo = undefined THEN 5
                               ELSE Valor(sreq[s].minimo)

(***************************************************************************)
(* Claim about the low-stock query (checked under SpecBajo).               *)
(***************************************************************************)
\* the documents the query returned
Listados == {bajo.resultado[n] : n \in DOMAIN bajo.resultado}

SeisEstados == {"pendiente", "confirmado", "en_proceso", "enviado", "entregado", "cancelado"}

\* the status of the order of that id in a pedidos collection
EstadoDe(coleccion, id) ==
    coleccion[CHOOSE k \in DOMAIN coleccion : coleccion[k].id = id].estado

\* C20: a status request whose token is not one of the six recognized ones is
\* answered 400 and leaves the order's status as it was; one whose token is
\* among them succeeds whatever the order's current status is ('cancelado'
\* included, from any prior status), and the order's status becomes the token.
C20_CambioDeEstado ==
    /\ [][\A e \in EReqs :
            (ereq[e].pc = "idle" /\ ereq'[e].pc # "idle" /\ ereq'[e].estado \notin SeisEstados)
                => ereq'[e].pc = "fin" /\ ereq'[e].status = 400 /\ pedidos' = pedidos]_vars
    /\ [](\A e \in EReqs :
            (ereq[e].pc = "fin" /\ ereq[e].solo /\ ereq[e].id = PedidoInicial.id) =>
                IF ereq[e].estado \notin SeisEstados
                THEN ereq[e].status = 400 /\ ereq[e].despues = ereq[e].antes
                ELSE /\ ereq[e].status = 200
                     /\ EstadoDe(ereq[e].despues, ereq[e].id) = ereq[e].estado)

\* the order was set to 'entregado', and then cancelled
C20_Testigo ==
    \E a, b \in EReqs :
        /\ ereq[a].pc = "fin" /\ ereq[a].solo /\ ereq[a].status = 200
        /\ ereq[b].pc = "fin" /\ ereq[b].solo /\ ereq[b].status = 200
        /\ ereq[a].id = PedidoInicial.id /\ ereq[b].id = PedidoInicial.id
        /\ ereq[a].estado = "entregado"
        /\ EstadoDe(ereq[b].antes, ereq[b].id) = "entregado"
        /\ ereq[b].estado = "cancelado"
        /\ EstadoDe(pedidos, PedidoInicial.id) = "cancelado"

\* C21: 'entregado' and 'cancelado' are terminal: once an order's status is
\* one of them, no step of any status request changes that order's status.
C21_EstadosTerminales ==
    [][\A k \in DOMAIN pedidos :
            pedidos[k].estado \in {"entregado", "cancelado"}
                => pedidos'[k].estado = pedidos[k].estado]_vars

(***************************************************************************)
(* Claim about the order queries (checked under SpecConsulta).             *)
(***************************************************************************)
\* the documents the query answered with
Recibidos == {creq.resultado[n] : n \in DOMAIN creq.resultado}

\* the orders of that id
PedidosConId(id) == {k \in DOMAIN pedidos : pedidos[k].id = id}

\* C22: a caller of role 'empleado' never receives an order of another vendor:
\* the list has exactly the orders whose vendedorId is the caller's id, and
\* the query by id is answered 403 for another vendor's order; any other role
\* gets every order from the list and any existing order by id; the query by
\* id is answered 404 for an id no order has.
C22_PedidosPorRol ==
    creq.pc = "fin" =>
        /\ creq.rol = "empleado" => \A k \in Recibidos : pedidos[k].vendedorId = creq.userId
        /\ Len(creq.resultado) = Cardinality(Recibidos)
        /\ creq.op = "listar" =>
              /\ creq.status = 200
              /\ Recibidos = IF creq.rol = "empleado"
                             THEN {k \in DOMAIN pedidos : pedidos[k].vendedorId = creq.userId}
                             ELSE DOMAIN pedidos
        /\ creq.op = "buscar" =>
              IF PedidosConId(creq.id) = {}
              THEN creq.status = 404 /\ Recibidos = {}
              ELSE IF creq.rol = "empleado"
                      /\ \E k \in PedidosConId(creq.id) : pedidos[k].vendedorId # creq.userId
              THEN creq.status = 403 /\ Recibidos = {}
              ELSE creq.status = 200 /\ Recibidos = PedidosConId(creq.id)

\* an 'empleado' listed the orders of a collection that holds one order of
\* theirs and one of another vendor, and received only their own
C22_Testigo ==
    /\ creq.pc = "fin" /\ creq.op = "listar" /\ creq.rol = "empleado"
    /\ \E k, j \in DOMAIN pedidos :
          /\ pedidos[k].vendedorId = creq.userId
          /\ pedidos[j].vendedorId # creq.userId
          /\ Recibidos = {k}

(***************************************************************************)
(* Claim about a failing debit pass (checked under SpecFallo).             *)
(***************************************************************************)
\* C23: when the debit pass fails at a line item after the order was
\* persisted, nothing is rolled back: the failing step changes neither stocks
\* nor pedidos, the order stays persisted with status 'pendiente', the debits
\* of the earlier line items stay applied and the remaining line items are
\* not debited.
C23_SinReversion ==
    /\ [][\A r \in Reqs :
            (req[r].pc \in {"debitar", "upd_find", "upd_write"} /\ req'[r].status = 500)
                => stocks' = stocks /\ pedidos' = pedidos]_vars
    /\ [](\A r \in Reqs :
            (req[r].pc = "fin" /\ req[r].status = 500) =>
                LET productos == req[r].productos IN
                /\ Cardinality(PedidosDe(r)) = 1
                /\ \A k \in PedidosDe(r) : pedidos[k].estado = "pendiente"
                /\ (req[r].solo /\ ProductosDistintos(productos)) =>
                      \A n \in DOMAIN productos :
                          CantidadEn(stocks, productos[n].productoId)
                             = CantidadEn(req[r].antes, productos[n].productoId)
                               - (IF n < req[r].i THEN productos[n].cantidad ELSE 0))

\* the order of 2 x P1 and 1 x P2 failed at its second line item: the order is
\* there, pending, P1 was debited to 3 and P2 still has 3
C23_Testigo ==
    \E r \in Reqs :
        /\ req[r].pc = "fin" /\ req[r].status = 500 /\ req[r].solo
        /\ req[r].productos = <<Item("P1", 2, 100), Item("P2", 1, 50)>>
        /\ req[r].i = 2
        /\ \E k \in PedidosDe(r) : pedidos[k].estado = "pendiente"
        /\ CantidadEn(stocks, "P1") = 3 /\ CantidadEn(stocks, "P2") = 3

(***************************************************************************)
(* Claim about the generator's fallback (checked under SpecSemilla).       *)
(***************************************************************************)
\* the calls for collection t that completed through the transaction
CommitsDe(t) == SelectSeq(DevueltosDe(t), LAMBDA e : e.via = "tx")

\* what the first committing call for t returns: the seeded counter plus one,
\* or the initial value when the script seeds no counter for t
PrimerCommit(t) ==
    IF t \in DOMAIN counters THEN counters[t] + 1 ELSE getInitialValue(t)

\* C24: when the counter transaction aborts, the call does not fail but
\* returns the fallback value and leaves the stored counter of its collection
\* as it was, so the calls that commit return the stored value plus one, one
\* after the other, whatever fallbacks happen in between.
C24_FallbackSinFuga ==
    /\ [][\A p \in Generadores :
            (EnVuelo(p) /\ seq'[p].pc = "fin" /\ devueltos'[Len(devueltos')].via = "fallback")
                => /\ contadores' = contadores
                   /\ seq'[p].resultado = RelojBase + reloj]_vars
    /\ [](\A t \in Colecciones :
            LET txs == CommitsDe(t) IN
            /\ \A k \in DOMAIN txs : txs[k].valor = PrimerCommit(t) + (k - 1)
            /\ Len(txs) > 0 => contadores[t].secuencia = PrimerCommit(t) + Len(txs) - 1
            /\ (Len(txs) = 0 /\ t \in DOMAIN counters)
                  => contadores[t].secuencia = counters[t])

\* a call for a seeded collection fell back, and the next call for it
\* committed and returned the seeded value plus one
C24_Testigo ==
    \E i, j \in DOMAIN devueltos :
        /\ i < j
        /\ devueltos[i].tipo = devueltos[j].tipo
        /\ devueltos[i].tipo \in DOMAIN counters
        /\ devueltos[i].via = "fallback"
        /\ devueltos[j].via = "tx"
        /\ devueltos[j].valor = counters[devueltos[j].tipo] + 1

(***************************************************************************)
(* Further claims about the price version store.                           *)
(***************************************************************************)
\* C25 (checked under SpecPrecios): for a product that has had a current
\* price, the current-price query finds none only while a price request for
\* that product is between its retire step and its insert step; and when such
\* a request completes, the query returns the record it has just inserted.
C25_VentanaSinPrecio ==
    /\ [](\A p \in Productos :
            (PreciosDe(p) # {} /\ PrecioFindByProductoId(p) = 0)
                => \E h \in PReqs : preq[h].productoId = p /\ preq[h].pc = "save_set")
    /\ [][\A h \in PReqs :
            (preq[h].pc = "save_set" /\ preq'[h].pc = "fin")
                => PrecioFindByProductoId(preq[h].productoId)' = Len(precios')]_vars

(***************************************************************************)
(* Further claims about order placement (checked under Spec).              *)
(***************************************************************************)
\* 'PED-202510-' followed by the four digits of n (n < 10000), the requests
\* being made in October 2025
NumeroEsperado(n) ==
    Cadena(<<"P", "E", "D", "-", "2", "0", "2", "5", "1", "0", "-">>
           \o <<Digito(n \div 1000), Digito((n \div 100) % 10),
                Digito((n \div 10) % 10), Digito(n % 10)>>)

RECURSIVE SumaCantidades(_, _)
\* the quantity of product p over the line items of the orders at positions S
SumaCantidades(p, S) ==
    IF S = {} THEN 0
    ELSE LET k == CHOOSE k \in S : TRUE
             lineas == SelectSeq(pedidos[k].productos, LAMBDA item : item.productoId = p)
         IN SumaLineas([n \in DOMAIN lineas |-> [lineas[n] EXCEPT !.precio = 1]], DOMAIN lineas)
            + SumaCantidades(p, S \ {k})

\* C27: after concurrently running place-order requests have all completed
\* successfully, each product's stock quantity is its initial quantity minus
\* the total quantity of that product over the line items of the persisted
\* orders.
C27_SinDebitoPerdido ==
    (\A r \in Reqs : req[r].pc = "fin" /\ req[r].status = 201) =>
        \A p \in Productos :
            CantidadEn(stocks, p) =
                CantidadEn(StocksIniciales, p)
                - SumaCantidades(p, DOMAIN pedidos)

\* C28: a single place-order request running with no concurrent request never
\* leaves a stock quantity negative, also when one product appears in several
\* of its line items whose quantities together exceed the product's stock.
C28_SoloNoNegativo ==
    \A r \in Reqs :
        (req[r].solo /\ \A o \in Reqs \ {r} : req[o].pc = "idle")
            => \A k \in DOMAIN stocks : stocks[k].activo => stocks[k].cantidad >= 0

(***************************************************************************)
(* Claim about the status of placed orders (checked under SpecCiclo).      *)
(***************************************************************************)
\* C29: in every reachable state the status of every persisted order is one
\* of the six tokens; an order appears with status 'pendiente', and the
\* status of an existing order changes only in the write of a setStatus call
\* for that order, to the status the call asked for.
C29_EstadoDePedido ==
    /\ [](\A k \in DOMAIN pedidos : pedidos[k].estado \in SeisEstados)
    /\ [][/\ \A k \in DOMAIN pedidos' \ DOMAIN pedidos : pedidos'[k].estado = "pendiente"
          /\ \A k \in DOMAIN pedidos :
                /\ k \in DOMAIN pedidos'
                /\ pedidos'[k].estado # pedidos[k].estado =>
                      \E e \in EReqs : /\ ereq[e].pc = "ue_write"
                                       /\ ereq'[e].pc = "fin"
                                       /\ ereq[e].doc = k
                                       /\ pedidos[k].id = ereq[e].id
                                       /\ pedidos'[k].estado = ereq[e].estado]_vars

\* an order placed by r1 was pending when a setStatus call arrived and is
\* 'enviado' after it, while the order placed by r2 is still pending
C29_Testigo ==
    \E k, j \in DOMAIN pedidos, e \in EReqs :
        /\ pedidos[k].cliente = "r1" /\ pedidos[k].estado = "enviado"
        /\ pedidos[j].cliente = "r2" /\ pedidos[j].estado = "pendiente"
        /\ ereq[e].pc = "fin" /\ ereq[e].status = 200 /\ ereq[e].estado = "enviado"
        /\ k \in DOMAIN ereq[e].antes /\ ereq[e].antes[k].estado = "pendiente"

(***************************************************************************)
(* Claim about a failed price change (checked under SpecPreciosFallo).     *)
(***************************************************************************)
\* C30: when a price change that ran alone for its product fails at its
\* insert, after its retire step, the record that was current when the call
\* arrived is still current and is what getCurrentPrice returns.
C30_FalloConPrecioVigente ==
    \A h \in PReqs :
        (preq[h].pc = "fin" /\ preq[h].status = 500 /\ preq[h].solo /\ preq[h].antes # 0
         /\ \A o \in PReqs \ {h} : preq[o].pc \in {"idle", "fin"} /\ preq[o].status # 500)
            => /\ precios[preq[h].antes].activo
               /\ PrecioFindByProductoId(preq[h].productoId) = preq[h].antes

====
